---- MODULE Spec2Model ----
(***************************************************************************)
(* Model of carbon-trace-server (src/server.js): the order REST handlers   *)
(* over the SQLite tables orders / order_items, and the /api/prompts and   *)
(* /api/health handlers.                                                   *)
(*                                                                         *)
(* Granularity: one SQL statement executes atomically (SQLite autocommit,  *)
(* one connection); the statements of different in-flight requests         *)
(* interleave freely, because every statement after the first of a handler *)
(* is issued from a completion callback, outside db.serialize.  The        *)
(* JavaScript run by a completion callback is part of the step of the      *)
(* statement that completed.                                               *)
(***************************************************************************)
EXTENDS Integers, Sequences, FiniteSets, TLC

(* ------------------------------ bounds -------------------------------- *)
MaxReqs == 2        \* request slots: writing requests in flight at once
MaxOrders == 2      \* orders rows ever inserted (AUTOINCREMENT sequence)
MaxItems == 2       \* length of an items list in a request body
MaxItemRows == 2    \* order_items rows stored at once
MaxClock == 1       \* seconds of CURRENT_TIMESTAMP that pass
MaxPrompts == 2     \* /api/prompts requests waiting for the provider at once
MaxCalls == 3       \* calls of the external provider

(* ------------------------------ values -------------------------------- *)
NULL == "NULL"      \* SQL NULL / JSON null / a field missing from the body
RowId == "rowid"    \* the id of an order_items row (the value is not modelled)

Slots == 1..MaxReqs
OrderIds == 1..MaxOrders

\* item objects a client may send; Bad lacks itemName
Mug == [itemName |-> "Mug", unitPrice |-> "10", quantity |-> "2", carbonSaved |-> "1.5"]
Cup == [itemName |-> "Cup", unitPrice |-> "4", quantity |-> "1", carbonSaved |-> "0.5"]
Bad == [itemName |-> NULL, unitPrice |-> "1", quantity |-> "1", carbonSaved |-> "0"]
ItemValues == {Mug, Cup, Bad}

\* the items lists a client may send, of at most MaxItems items: none, one,
\* several different ones, the same twice, one the storage rejects
ItemLists ==
  { l \in {<<>>, <<Mug>>, <<Cup, Mug>>, <<Bad>>, <<Cup, Cup, Mug>>} :
      Len(l) <= MaxItems }

Body(name, price, saved, hasItems, items) ==
  [customerName |-> name, totalPrice |-> price, totalCarbonSaved |-> saved,
   hasItems |-> hasItems, items |-> items]

\* req.body of POST /api/orders and PUT /api/orders/:id: every items list
\* under one customer, and bodies of another customer, without customerName
\* and without an `items` member (hasItems = FALSE)
Bodies ==
  { Body("Alice", "20", "1.5", TRUE, l) : l \in ItemLists }
  \cup { Body("Bob", "8", "1", TRUE, <<Cup>>),
         Body(NULL, "20", "1.5", TRUE, <<Mug>>),
         Body("Alice", "20", "1.5", FALSE, <<>>) }

NoBody == Body(NULL, NULL, NULL, FALSE, <<>>)

(* ------------------------------- state -------------------------------- *)
VARIABLES
  orders,        \* table orders: id -> row
  order_items,   \* table order_items: orderId -> its rows, in rowid order
  seqOrders,     \* sqlite_sequence of orders (AUTOINCREMENT)
  clock,         \* CURRENT_TIMESTAMP, in seconds
  reqs,          \* slot -> the writing request in flight in it
  resp,          \* the response the last step sent, if it sent one
  crashed,       \* the process died of an uncaught exception
  before,        \* <<a, b>>: Create of a was answered before Create of b began
  cred,          \* process.env.GOOGLE_API_KEY
  waiting,       \* slot -> the prompt whose provider call is in flight
  presp,         \* the /api/prompts or /api/health response of the last step
  calls,         \* calls of the external provider so far
  lost           \* a /api/prompts handler ended without a response

ovars == <<orders, order_items, seqOrders, clock, reqs, resp, before>>

pvars == <<cred, waiting, presp, calls, lost>>

vars == <<ovars, crashed, pvars>>

\* a request in flight: pc is the statement it waits for, k the next item,
\* alone whether no other writing request on its id has been in flight with
\* it, failed whether storage rejected one of its statements
Idle == [op |-> "none", id |-> 0, body |-> NoBody, pc |-> "done", k |-> 0,
         changes |-> 0, alone |-> FALSE, failed |-> FALSE]

NoResp == [op |-> "none", id |-> 0, status |-> 0, data |-> <<>>,
           changes |-> 0, body |-> NoBody, alone |-> FALSE, failed |-> FALSE]

\* a new request takes the first slot that holds no request in flight
Free(s) ==
  /\ reqs[s].op = "none"
  /\ \A t \in Slots : t < s => reqs[t].op # "none"

(* ---------------------- storage helper functions ----------------------- *)
\* The connection is opened without PRAGMA foreign_keys = ON, so SQLite does
\* not enforce the FOREIGN KEY clause of order_items.
ForeignKeys == FALSE

\* the rows of order_items WHERE orderId = id, in rowid order
ItemsOf(id) == order_items[id]

RECURSIVE Sum(_, _)
Sum(f, S) ==
  IF S = {} THEN 0
  ELSE LET x == CHOOSE y \in S : TRUE IN f[x] + Sum(f, S \ {x})

\* the number of rows of order_items
Rows == Sum([i \in DOMAIN order_items |-> Len(order_items[i])], DOMAIN order_items)

JsonObject(r) ==
  [id |-> RowId, itemName |-> r.itemName, unitPrice |-> r.unitPrice,
   quantity |-> r.quantity, carbonSaved |-> r.carbonSaved]

\* the json_object built from the all-NULL right side of the LEFT JOIN
NullObject ==
  [id |-> NULL, itemName |-> NULL, unitPrice |-> NULL,
   quantity |-> NULL, carbonSaved |-> NULL]

\* JSON.parse(json_group_array(json_object(...))) over orders LEFT JOIN
\* order_items for one order: an order without items still yields one joined
\* row, whose oi.* columns are NULL
JsonItems(id) ==
  LET rows == ItemsOf(id)
  IN  IF rows = <<>> THEN <<NullObject>>
      ELSE [i \in 1..Len(rows) |-> JsonObject(rows[i])]

\* one result row of the SELECT, with items parsed
OrderObject(id) ==
  [id |-> id, customerName |-> orders[id].customerName,
   totalPrice |-> orders[id].totalPrice,
   totalCarbonSaved |-> orders[id].totalCarbonSaved,
   timestamp |-> orders[id].timestamp, items |-> JsonItems(id)]

\* the SELECT without GROUP BY: an aggregate query answers one row even
\* when no orders row matches
ReadResultNoGroupBy(id) ==
  IF id \in DOMAIN orders THEN <<OrderObject(id)>>
  ELSE <<[items |-> <<NullObject>>]>>

\* data of GET /api/orders/:id: <<>> stands for an undefined row
ReadResult(id) ==
  IF id \in DOMAIN orders THEN <<OrderObject(id)>> ELSE <<>>

\* ORDER BY o.timestamp DESC: every order of the ids that is descending in
\* timestamp; SQL leaves the order of equal timestamps open
ListOrders ==
  LET n == Cardinality(DOMAIN orders)
  IN  { L \in [1..n -> DOMAIN orders] :
          /\ \A i, j \in 1..n : i # j => L[i] # L[j]
          /\ \A i, j \in 1..n :
               i < j => orders[L[i]].timestamp >= orders[L[j]].timestamp }

ListResult(L) == [i \in 1..Len(L) |-> OrderObject(L[i])]

\* DELETE FROM order_items WHERE orderId = ? of the Update handler
UpdateDeletedItems(id) == [order_items EXCEPT ![id] = <<>>]

\* a Delete that leaves the rows of order_items in place
DeleteKeepsItems(id) == order_items

\* DELETE FROM order_items WHERE orderId = ? of the Delete handler
DeleteDeletedItems(id) == [order_items EXCEPT ![id] = <<>>]

\* DELETE FROM orders WHERE id = ?
DeletedOrders(id) == [i \in DOMAIN orders \ {id} |-> orders[i]]

\* the table after INSERT INTO order_items of an item of the body
InsertedItem(orderId, item) ==
  [order_items EXCEPT ![orderId] = Append(@,
     [itemName |-> item.itemName, unitPrice |-> item.unitPrice,
      quantity |-> item.quantity, carbonSaved |-> item.carbonSaved])]

\* INSERT INTO order_items fails: I/O failure, NOT NULL, (unenforced) parent
ItemRejected(orderId, item, fault) ==
  \/ fault
  \/ item.itemName = NULL
  \/ ForeignKeys /\ orderId \notin DOMAIN orders

(* ------------------------- bookkeeping (ghost) ------------------------- *)
\* item rows the request of a slot has still to insert
Remaining(r) ==
  IF r.op = "none" \/ r.pc = "finalize" \/ r.pc = "throw" THEN 0
  ELSE IF r.pc = "items" THEN Len(r.body.items) - r.k + 1
  ELSE Len(r.body.items)

RECURSIVE Reserved(_)
Reserved(n) == IF n = 0 THEN Rows ELSE Remaining(reqs[n]) + Reserved(n - 1)

\* the bounds leave room for the rows a Create will insert
Room(body) == Reserved(MaxReqs) + Len(body.items) <= MaxItemRows

\* the bounds leave room for the rows an Update of order id will insert,
\* after it has deleted the rows of id
RoomAt(id, body) ==
  Reserved(MaxReqs) - Len(order_items[id]) + Len(body.items) <= MaxItemRows

\* the orders whose Create has been answered
Completed ==
  {a \in 1..seqOrders :
     \A t \in Slots : ~(reqs[t].op = "create" /\ reqs[t].id = a)}

\* no other request on the id is in flight
AloneAt(s, id) == \A t \in Slots \ {s} : reqs[t].id # id

\* slot s takes request r on order id; the requests in flight on id are no
\* longer alone on it
Begin(s, id, r) ==
  [t \in Slots |->
     IF t = s THEN [r EXCEPT !.alone = AloneAt(s, id)]
     ELSE IF reqs[t].id = id THEN [reqs[t] EXCEPT !.alone = FALSE]
     ELSE reqs[t]]

\* the other requests after a request on id was answered at once
Met(s, id) ==
  [t \in Slots |->
     IF t # s /\ reqs[t].id = id THEN [reqs[t] EXCEPT !.alone = FALSE]
     ELSE reqs[t]]

AfterItems(body) == IF Len(body.items) = 0 THEN "finalize" ELSE "items"

\* res.status(status).json(...) for request r
Answer(r, status, data) ==
  [op |-> r.op, id |-> r.id, status |-> status, data |-> data,
   changes |-> r.changes, body |-> r.body, alone |-> r.alone,
   failed |-> r.failed]

\* res.status(status).json({ error: err.message })
Error(r, status) == Answer([r EXCEPT !.failed = TRUE], status, <<>>)

Request(op, id, body) == [Idle EXCEPT !.op = op, !.id = id, !.body = body]

(* ------------------------- prompts and health ------------------------- *)
PromptSlots == 1..MaxPrompts

\* process.env.GOOGLE_API_KEY: not set, the empty string, the placeholder
\* 'your-fallback-key-here', any other string
Credentials == {"unset", "empty", "placeholder", "key"}

\* req.body.prompt: given = FALSE is a body without a string `prompt`;
\* estimate and suggest tell whether the string includes "Estimate the
\* carbon footprint" and "suggestions to reduce carbon footprint"
Prompts ==
  {[given |-> FALSE, estimate |-> FALSE, suggest |-> FALSE]}
  \cup {[given |-> TRUE, estimate |-> e, suggest |-> s] : e, s \in BOOLEAN}

NoPrompt == [given |-> FALSE, estimate |-> TRUE, suggest |-> TRUE]

NoAnswer == [op |-> "none", status |-> 0, body |-> "none", prompt |-> NoPrompt,
             failed |-> FALSE, hasApiKey |-> FALSE]

\* a health check that takes every string but the placeholder for a key
HasKeyAnyString(c) == c # "unset" /\ c # "placeholder"

\* !!process.env.GOOGLE_API_KEY && process.env.GOOGLE_API_KEY !== placeholder
HasKey(c) == c # "unset" /\ c # "empty" /\ c # "placeholder"

\* a credential check that does not compare with the placeholder
UseFallbackNoPlaceholder(c) == c = "unset" \/ c = "empty"

\* !process.env.GOOGLE_API_KEY || process.env.GOOGLE_API_KEY === placeholder
UseFallback(c) == c = "unset" \/ c = "empty" \/ c = "placeholder"

\* the if / else if / else over prompt.includes(...)
Classify(prompt) ==
  IF prompt.estimate THEN "estimate"
  ELSE IF prompt.suggest THEN "advice"
  ELSE "apology"

\* a catch block that sends 500 for every prompt
FailureStatusAlways500(prompt) == 500

\* the status the catch block sends for a prompt
FailureStatus(prompt) == IF Classify(prompt) = "apology" THEN 500 ELSE 200

PromptAnswer(prompt, status, body, failed) ==
  [op |-> "prompt", status |-> status, body |-> body, prompt |-> prompt,
   failed |-> failed, hasApiKey |-> FALSE]

(* ------------------------------- Init ---------------------------------- *)
Boot(c) ==
  /\ cred = c
  /\ waiting = [p \in PromptSlots |-> NoPrompt]
  /\ presp = NoAnswer
  /\ calls = 0
  /\ lost = FALSE
  /\ orders = <<>>
  /\ order_items = [id \in OrderIds |-> <<>>]
  /\ seqOrders = 0
  /\ clock = 0
  /\ reqs = [s \in Slots |-> Idle]
  /\ resp = NoResp
  /\ crashed = FALSE
  /\ before = {}

\* the order handlers do not read the credential
Init == Boot("unset")

(* --------------------------- GET /api/orders --------------------------- *)
List(fault) ==
  /\ UNCHANGED pvars
  /\ ~crashed
  /\ LET r == Request("list", 0, NoBody)
     IN  IF fault
           THEN resp' = Error(r, 500)
           ELSE \E L \in ListOrders : resp' = Answer(r, 200, ListResult(L))
  /\ UNCHANGED <<orders, order_items, seqOrders, clock, reqs, crashed,
                 before>>

(* ------------------------- GET /api/orders/:id ------------------------- *)
Read(id, fault) ==
  /\ UNCHANGED pvars
  /\ ~crashed
  /\ LET r == Request("read", id, NoBody)
     IN  IF fault
           THEN resp' = Error(r, 400)
           ELSE resp' = Answer(r, 200, ReadResult(id))
  /\ UNCHANGED <<orders, order_items, seqOrders, clock, reqs, crashed,
                 before>>

(* -------------------------- POST /api/orders --------------------------- *)
\* INSERT INTO orders is rejected: I/O failure or NOT NULL customerName
OrderRejected(body, fault) == fault \/ body.customerName = NULL

\* the row INSERT INTO orders adds
OrderRow(body) ==
  [customerName |-> body.customerName, totalPrice |-> body.totalPrice,
   totalCarbonSaved |-> body.totalCarbonSaved, timestamp |-> clock]

\* the insert callback without the return of its error branch: it answers
\* 400 and goes on to queue the item inserts
CreateInsertOrderNoReturn(s, body, fault) ==
  /\ UNCHANGED pvars
  /\ ~crashed /\ Free(s)
  /\ seqOrders < MaxOrders /\ Room(body)
  /\ IF OrderRejected(body, fault)
       THEN /\ resp' = Error(Request("create", 0, body), 400)
            /\ crashed' = ~body.hasItems
            /\ reqs' = Begin(s, seqOrders,
                 [Request("create", seqOrders, body) EXCEPT !.k = 1,
                    !.pc = IF body.hasItems THEN AfterItems(body)
                           ELSE "throw"])
            /\ UNCHANGED <<orders, seqOrders, before>>
       ELSE LET orderId == seqOrders + 1
            IN  /\ orders' = (orderId :> OrderRow(body)) @@ orders
                /\ seqOrders' = orderId
                /\ before' = before \cup {<<a, orderId>> : a \in Completed}
                /\ crashed' = ~body.hasItems      \* items.forEach throws
                /\ reqs' = Begin(s, orderId,
                     [Request("create", orderId, body) EXCEPT !.k = 1,
                        !.pc = IF body.hasItems THEN AfterItems(body)
                               ELSE "throw"])
                /\ resp' = NoResp
  /\ UNCHANGED <<order_items, clock>>

\* INSERT INTO orders and its callback, up to the queued item inserts
CreateInsertOrder(s, body, fault) ==
  /\ UNCHANGED pvars
  /\ ~crashed /\ Free(s)
  /\ seqOrders < MaxOrders /\ Room(body)
  /\ IF OrderRejected(body, fault)
       THEN /\ resp' = Error(Request("create", 0, body), 400)
            /\ UNCHANGED <<orders, seqOrders, reqs, crashed, before>>
       ELSE LET orderId == seqOrders + 1
            IN  /\ orders' = (orderId :> OrderRow(body)) @@ orders
                /\ seqOrders' = orderId
                /\ before' = before \cup {<<a, orderId>> : a \in Completed}
                /\ crashed' = ~body.hasItems      \* items.forEach throws
                /\ reqs' = Begin(s, orderId,
                     [Request("create", orderId, body) EXCEPT !.k = 1,
                        !.pc = IF body.hasItems THEN AfterItems(body)
                               ELSE "throw"])
                /\ resp' = NoResp
  /\ UNCHANGED <<order_items, clock>>

\* item inserts that take the connection's last inserted rowid for orderId
CreateInsertItemSharedLastID(s, fault) ==
  /\ UNCHANGED pvars
  /\ ~crashed
  /\ reqs[s].op = "create" /\ reqs[s].pc = "items"
  /\ resp' = NoResp
  /\ LET r == reqs[s]
         item == r.body.items[r.k]
     IN  IF ItemRejected(seqOrders, item, fault)
           THEN /\ crashed' = TRUE
                /\ reqs' = [reqs EXCEPT ![s].failed = TRUE]
                /\ UNCHANGED order_items
           ELSE /\ order_items' = InsertedItem(seqOrders, item)
                /\ reqs' = [reqs EXCEPT ![s].k = r.k + 1,
                     ![s].pc = IF r.k = Len(r.body.items) THEN "finalize"
                               ELSE "items"]
                /\ UNCHANGED crashed
  /\ UNCHANGED <<orders, seqOrders, clock, before>>

\* one stmt.run of the forEach; it has no callback, so a failure is an
\* 'error' event without a listener: an uncaught exception
CreateInsertItem(s, fault) ==
  /\ UNCHANGED pvars
  /\ ~crashed
  /\ reqs[s].op = "create" /\ reqs[s].pc = "items"
  /\ resp' = NoResp
  /\ LET r == reqs[s]
         item == r.body.items[r.k]
     IN  IF ItemRejected(r.id, item, fault)
           THEN /\ crashed' = TRUE
                /\ reqs' = [reqs EXCEPT ![s].failed = TRUE]
                /\ UNCHANGED order_items
           ELSE /\ order_items' = InsertedItem(r.id, item)
                /\ reqs' = [reqs EXCEPT ![s].k = r.k + 1,
                     ![s].pc = IF r.k = Len(r.body.items) THEN "finalize"
                               ELSE "items"]
                /\ UNCHANGED crashed
  /\ UNCHANGED <<orders, seqOrders, clock, before>>

\* the data of the Create response
Created(r) ==
  <<[id |-> r.id, customerName |-> r.body.customerName,
     totalPrice |-> r.body.totalPrice,
     totalCarbonSaved |-> r.body.totalCarbonSaved, items |-> r.body.items]>>

\* stmt.finalize and its callback
CreateFinalize(s, fault) ==
  /\ UNCHANGED pvars
  /\ ~crashed
  /\ reqs[s].op = "create" /\ reqs[s].pc = "finalize"
  /\ resp' = IF fault THEN Error(reqs[s], 400)
             ELSE Answer(reqs[s], 200, Created(reqs[s]))
  /\ reqs' = [reqs EXCEPT ![s] = Idle]
  /\ UNCHANGED <<orders, order_items, seqOrders, clock, crashed,
                 before>>

(* ------------------------- PUT /api/orders/:id ------------------------- *)
\* UPDATE orders is rejected: I/O failure, or NOT NULL on a row it matches
UpdateRejected(id, body, fault) ==
  fault \/ (id \in DOMAIN orders /\ body.customerName = NULL)

\* an UPDATE orders without its WHERE clause
UpdatedOrdersNoWhere(id, body) ==
  [i \in DOMAIN orders |->
     [orders[i] EXCEPT !.customerName = body.customerName,
                       !.totalPrice = body.totalPrice,
                       !.totalCarbonSaved = body.totalCarbonSaved]]

\* the table after UPDATE orders SET ... WHERE id = ?
UpdatedOrders(id, body) ==
  [i \in DOMAIN orders |->
     IF i = id
       THEN [orders[i] EXCEPT !.customerName = body.customerName,
                              !.totalPrice = body.totalPrice,
                              !.totalCarbonSaved = body.totalCarbonSaved]
       ELSE orders[i]]

\* this.changes of a statement with WHERE id = ?
Changes(id) == IF id \in DOMAIN orders THEN 1 ELSE 0

UpdateOrder(s, id, body, fault) ==
  /\ UNCHANGED pvars
  /\ ~crashed /\ Free(s) /\ RoomAt(id, body)
  /\ LET r == Request("update", id, body)
     IN  IF UpdateRejected(id, body, fault)
           THEN /\ resp' = Error([r EXCEPT !.alone = AloneAt(s, id)], 400)
                /\ reqs' = Met(s, id)
                /\ UNCHANGED orders
           ELSE /\ orders' = UpdatedOrders(id, body)
                /\ reqs' = Begin(s, id,
                     [r EXCEPT !.pc = "delete_items", !.changes = Changes(id)])
                /\ resp' = NoResp
  /\ UNCHANGED <<order_items, seqOrders, clock, crashed, before>>

\* DELETE FROM order_items and its callback, up to the queued item inserts
UpdateDeleteItems(s, fault) ==
  /\ UNCHANGED pvars
  /\ ~crashed
  /\ reqs[s].op = "update" /\ reqs[s].pc = "delete_items"
  /\ LET r == reqs[s]
     IN  IF fault
           THEN /\ resp' = Error(r, 400)
                /\ reqs' = [reqs EXCEPT ![s] = Idle]
                /\ UNCHANGED <<order_items, crashed>>
           ELSE /\ order_items' = UpdateDeletedItems(r.id)
                /\ crashed' = ~r.body.hasItems    \* items.forEach throws
                /\ reqs' = [reqs EXCEPT ![s].k = 1,
                     ![s].pc = IF r.body.hasItems THEN AfterItems(r.body)
                               ELSE "throw"]
                /\ resp' = NoResp
  /\ UNCHANGED <<orders, seqOrders, clock, before>>

UpdateInsertItem(s, fault) ==
  /\ UNCHANGED pvars
  /\ ~crashed
  /\ reqs[s].op = "update" /\ reqs[s].pc = "items"
  /\ resp' = NoResp
  /\ LET r == reqs[s]
         item == r.body.items[r.k]
     IN  IF ItemRejected(r.id, item, fault)
           THEN /\ crashed' = TRUE
                /\ reqs' = [reqs EXCEPT ![s].failed = TRUE]
                /\ UNCHANGED order_items
           ELSE /\ order_items' = InsertedItem(r.id, item)
                /\ reqs' = [reqs EXCEPT ![s].k = r.k + 1,
                     ![s].pc = IF r.k = Len(r.body.items) THEN "finalize"
                               ELSE "items"]
                /\ UNCHANGED crashed
  /\ UNCHANGED <<orders, seqOrders, clock, before>>

\* a finalize callback that counts the rows the id matches when it runs
UpdateFinalizeLateChanges(s, fault) ==
  /\ UNCHANGED pvars
  /\ ~crashed
  /\ reqs[s].op = "update" /\ reqs[s].pc = "finalize"
  /\ resp' = IF fault THEN Error(reqs[s], 400)
             ELSE Answer([reqs[s] EXCEPT !.changes = Changes(reqs[s].id)],
                         200, <<>>)
  /\ reqs' = [reqs EXCEPT ![s] = Idle]
  /\ UNCHANGED <<orders, order_items, seqOrders, clock, crashed,
                 before>>

\* stmt.finalize and its callback: this.changes is the one of the UPDATE
UpdateFinalize(s, fault) ==
  /\ UNCHANGED pvars
  /\ ~crashed
  /\ reqs[s].op = "update" /\ reqs[s].pc = "finalize"
  /\ resp' = IF fault THEN Error(reqs[s], 400) ELSE Answer(reqs[s], 200, <<>>)
  /\ reqs' = [reqs EXCEPT ![s] = Idle]
  /\ UNCHANGED <<orders, order_items, seqOrders, clock, crashed,
                 before>>

(* ------------------------ DELETE /api/orders/:id ----------------------- *)
\* a callback without the return of its error branch: it answers 400 and
\* goes on to delete the orders row
DeleteItemsNoReturn(s, id, fault) ==
  /\ UNCHANGED pvars
  /\ ~crashed /\ Free(s)
  /\ LET r == Request("delete", id, NoBody)
     IN  IF fault
           THEN /\ resp' = Error([r EXCEPT !.alone = AloneAt(s, id)], 400)
                /\ reqs' = Begin(s, id, [r EXCEPT !.pc = "delete_order"])
                /\ UNCHANGED order_items
           ELSE /\ order_items' = DeleteDeletedItems(id)
                /\ reqs' = Begin(s, id, [r EXCEPT !.pc = "delete_order"])
                /\ resp' = NoResp
  /\ UNCHANGED <<orders, seqOrders, clock, crashed, before>>

\* DELETE FROM order_items and its callback, up to the queued DELETE FROM
\* orders
DeleteItems(s, id, fault) ==
  /\ UNCHANGED pvars
  /\ ~crashed /\ Free(s)
  /\ LET r == Request("delete", id, NoBody)
     IN  IF fault
           THEN /\ resp' = Error([r EXCEPT !.alone = AloneAt(s, id)], 400)
                /\ reqs' = Met(s, id)
                /\ UNCHANGED order_items
           ELSE /\ order_items' = DeleteDeletedItems(id)
                /\ reqs' = Begin(s, id, [r EXCEPT !.pc = "delete_order"])
                /\ resp' = NoResp
  /\ UNCHANGED <<orders, seqOrders, clock, crashed, before>>

DeleteOrder(s, fault) ==
  /\ UNCHANGED pvars
  /\ ~crashed
  /\ reqs[s].op = "delete" /\ reqs[s].pc = "delete_order"
  /\ LET r == reqs[s]
     IN  IF fault
           THEN /\ resp' = Error(r, 400)
                /\ UNCHANGED orders
           ELSE /\ orders' = DeletedOrders(r.id)
                /\ resp' = Answer([r EXCEPT !.changes = Changes(r.id)], 200, <<>>)
  /\ reqs' = [reqs EXCEPT ![s] = Idle]
  /\ UNCHANGED <<order_items, seqOrders, clock, crashed, before>>

(* ------------------------------- time ---------------------------------- *)
\* a second of CURRENT_TIMESTAMP passes
Tick ==
  /\ UNCHANGED pvars
  /\ clock < MaxClock
  /\ clock' = clock + 1
  /\ resp' = NoResp
  /\ UNCHANGED <<orders, order_items, seqOrders, reqs, crashed,
                 before>>

(* -------------------------- POST /api/prompts -------------------------- *)
FreePrompt(p) ==
  /\ waiting[p] = NoPrompt
  /\ \A q \in PromptSlots : q < p => waiting[q] # NoPrompt

\* prompt.includes throws for a prompt that is no string, in the try block
\* and again in the catch block: the handler's promise is rejected and no
\* response is sent; the runtime may end the process for it (die)
Abandoned(die) ==
  /\ lost' = TRUE
  /\ crashed' = die
  /\ presp' = NoAnswer

\* the handler up to its first await
PromptStart(p, prompt, die) ==
  /\ ~crashed /\ FreePrompt(p)
  /\ IF UseFallback(cred)
       THEN /\ IF prompt.given
                 THEN /\ presp' = PromptAnswer(prompt, 200, Classify(prompt), FALSE)
                      /\ UNCHANGED <<lost, crashed>>
                 ELSE Abandoned(die)
            /\ UNCHANGED <<waiting, calls>>
       ELSE /\ calls < MaxCalls
            /\ calls' = calls + 1
            /\ waiting' = [waiting EXCEPT ![p] = prompt]
            /\ presp' = NoAnswer
            /\ UNCHANGED <<lost, crashed>>
  /\ UNCHANGED <<ovars, cred>>

\* generateResponse settles: the text of the provider, or the catch block
ProviderReturn(p, ok, die) ==
  /\ ~crashed /\ waiting[p] # NoPrompt
  /\ waiting' = [waiting EXCEPT ![p] = NoPrompt]
  /\ LET prompt == waiting[p]
     IN  IF ok
           THEN /\ presp' = PromptAnswer(prompt, 200, "text", FALSE)
                /\ UNCHANGED <<lost, crashed>>
           ELSE IF prompt.given
             THEN /\ presp' = PromptAnswer(prompt, FailureStatus(prompt),
                                Classify(prompt), TRUE)
                  /\ UNCHANGED <<lost, crashed>>
             ELSE Abandoned(die)
  /\ UNCHANGED <<ovars, cred, calls>>

(* --------------------------- GET /api/health --------------------------- *)
Health ==
  /\ ~crashed
  /\ presp' = [NoAnswer EXCEPT !.op = "health", !.status = 200,
                               !.hasApiKey = HasKey(cred)]
  /\ UNCHANGED <<ovars, crashed, cred, waiting, calls, lost>>

(* ---------------------------- specifications --------------------------- *)
\* no writing request is in flight
Quiescent == \A s \in Slots : reqs[s].op = "none"

\* Clients that wait for the response of a writing request before they send
\* the next one, over a storage that may reject any statement and a clock
\* that advances.  Reads and lists arrive at any time.
Next ==
  \/ \E fault \in BOOLEAN : List(fault)
  \/ \E id \in OrderIds, fault \in BOOLEAN : Read(id, fault)
  \/ \E s \in Slots, body \in Bodies, fault \in BOOLEAN :
       Quiescent /\ CreateInsertOrder(s, body, fault)
  \/ \E s \in Slots, fault \in BOOLEAN : CreateInsertItem(s, fault)
  \/ \E s \in Slots, fault \in BOOLEAN : CreateFinalize(s, fault)
  \/ \E s \in Slots, id \in OrderIds, body \in Bodies, fault \in BOOLEAN :
       Quiescent /\ UpdateOrder(s, id, body, fault)
  \/ \E s \in Slots, fault \in BOOLEAN : UpdateDeleteItems(s, fault)
  \/ \E s \in Slots, fault \in BOOLEAN : UpdateInsertItem(s, fault)
  \/ \E s \in Slots, fault \in BOOLEAN : UpdateFinalize(s, fault)
  \/ \E s \in Slots, id \in OrderIds, fault \in BOOLEAN :
       Quiescent /\ DeleteItems(s, id, fault)
  \/ \E s \in Slots, fault \in BOOLEAN : DeleteOrder(s, fault)
  \/ Tick

Spec == Init /\ [][Next]_vars

\* the bodies of the requests that arrive concurrently
ConcBodies ==
  {b \in Bodies : /\ b.customerName # NULL /\ b.hasItems
                  /\ \A i \in 1..Len(b.items) : b.items[i] # Bad}

\* Up to MaxReqs writing requests in flight at once, their statements
\* interleaved in every order, over a storage that rejects a statement only
\* for its data.
ConcNext ==
  \/ List(FALSE)
  \/ \E id \in OrderIds : Read(id, FALSE)
  \/ \E s \in Slots, body \in ConcBodies : CreateInsertOrder(s, body, FALSE)
  \/ \E s \in Slots : CreateInsertItem(s, FALSE)
  \/ \E s \in Slots : CreateFinalize(s, FALSE)
  \/ \E s \in Slots, id \in OrderIds, body \in ConcBodies :
       UpdateOrder(s, id, body, FALSE)
  \/ \E s \in Slots : UpdateDeleteItems(s, FALSE)
  \/ \E s \in Slots : UpdateInsertItem(s, FALSE)
  \/ \E s \in Slots : UpdateFinalize(s, FALSE)
  \/ \E s \in Slots, id \in OrderIds : DeleteItems(s, id, FALSE)
  \/ \E s \in Slots : DeleteOrder(s, FALSE)

ConcSpec == Init /\ [][ConcNext]_vars


\* The prompt and health handlers under every credential, with up to
\* MaxPrompts provider calls in flight, each of which succeeds or fails.
PromptInit == \E c \in Credentials : Boot(c)

PromptNext ==
  \/ \E p \in PromptSlots, prompt \in Prompts, die \in BOOLEAN :
       PromptStart(p, prompt, die)
  \/ \E p \in PromptSlots, ok \in BOOLEAN, die \in BOOLEAN :
       ProviderReturn(p, ok, die)
  \/ Health

PromptSpec == PromptInit /\ [][PromptNext]_vars

(* ------------------------------- claims -------------------------------- *)
\* the item a JSON item object describes
Fields(o) ==
  [itemName |-> o.itemName, unitPrice |-> o.unitPrice,
   quantity |-> o.quantity, carbonSaved |-> o.carbonSaved]

Count(seq, v) == Cardinality({i \in 1..Len(seq) : seq[i] = v})

\* the item objects are the supplied items: as many, and each as often
SameItems(objects, items) ==
  LET got == [i \in 1..Len(objects) |-> Fields(objects[i])]
  IN  /\ Len(got) = Len(items)
      /\ \A i \in 1..Len(items) : Count(got, items[i]) = Count(items, items[i])

\* C1: every order_items row has the orderId of an orders row that exists.
C1_NoOrphanItems ==
  \A id \in OrderIds : order_items[id] # <<>> => id \in DOMAIN orders

\* C2: when an Update of an existing order has answered success and no other
\* request on the order was in flight with it, Read of the order returns
\* exactly the items the Update supplied.
C2_UpdateReplacesItems ==
  (resp.op = "update" /\ resp.status = 200 /\ resp.alone /\ resp.changes = 1)
    => /\ ReadResult(resp.id) # <<>>
       /\ SameItems(ReadResult(resp.id)[1].items, resp.body.items)

\* C3: when a Create with N items has answered success, Read of the id it
\* returned yields exactly the N supplied items.
C3_CreateRoundTrip ==
  (resp.op = "create" /\ resp.status = 200)
    => /\ ReadResult(resp.data[1].id) # <<>>
       /\ SameItems(ReadResult(resp.data[1].id)[1].items, resp.data[1].items)

\* C4: Read and List return an order that has no order_items rows with
\* items equal to the empty sequence.
C4_EmptyItems ==
  /\ (resp.op = "read" /\ resp.status = 200 /\ resp.data # <<>>
        /\ order_items[resp.id] = <<>>)
       => resp.data[1].items = <<>>
  /\ (resp.op = "list" /\ resp.status = 200)
       => \A i \in 1..Len(resp.data) :
            order_items[resp.data[i].id] = <<>> => resp.data[i].items = <<>>

C6_NewestFirst ==
  (resp.op = "list" /\ resp.status = 200)
    => \A i, j \in 1..Len(resp.data) :
         <<resp.data[i].id, resp.data[j].id>> \in before => j < i

\* C7: a request of which storage rejected a statement is answered, with
\* status 400.
C7_StorageFailureIs400 ==
  /\ resp.failed => resp.status = 400
  /\ \A s \in Slots : ~reqs[s].failed

\* C9: Read of an id that matches no orders row answers 200 with no row;
\* it answers an error status only when storage rejects the SELECT.
C9_ReadMissing ==
  (resp.op = "read" /\ resp.id \notin DOMAIN orders)
    => IF resp.failed THEN resp.status = 400
       ELSE resp.status = 200 /\ resp.data = <<>>

\* C9 witness: a Read of the id of a deleted order has answered 200.
C9_Witness ==
  /\ resp.op = "read" /\ resp.status = 200 /\ resp.data = <<>>
  /\ resp.id \notin DOMAIN orders /\ resp.id <= seqOrders

\* C10: a step in which storage rejects the order insert of a Create answers
\* 400, leaves orders and order_items as they were and leaves no request
\* behind that would insert items.
C10_RejectedInsert ==
  [][(resp'.op = "create" /\ resp'.failed /\ resp'.id = 0)
       => /\ resp'.status = 400
          /\ orders' = orders /\ order_items' = order_items
          /\ seqOrders' = seqOrders
          /\ reqs' = reqs /\ crashed' = crashed]_vars

\* C10 witness: the order insert of a Create was rejected over tables that
\* hold an order and an item.
C10_Witness ==
  /\ resp.op = "create" /\ resp.failed /\ resp.id = 0 /\ resp.status = 400
  /\ \E id \in DOMAIN orders : order_items[id] # <<>>

\* C8: a /api/prompts response has status 500 exactly when a credential is
\* configured, the provider call failed and the prompt includes neither
\* phrase; every other response has status 200.
C8_PromptStatus ==
  presp.op = "prompt"
    => /\ presp.status \in {200, 500}
       /\ presp.status = 500
            <=> (HasKey(cred) /\ presp.failed
                 /\ ~presp.prompt.estimate /\ ~presp.prompt.suggest)

\* C8 witness: the provider failed on a prompt with one of the phrases, and
\* the response has status 200.
C8_Witness ==
  /\ presp.op = "prompt" /\ presp.failed /\ presp.status = 200
  /\ presp.prompt.suggest

\* C11: while the credential is unset or the placeholder, no step calls the
\* provider, every /api/prompts response has status 200 and the body that
\* the phrases of its prompt select, and the only /api/prompts step without
\* a response is the one of a prompt that is no string.
C11_FallbackOnly ==
  [][(cred \in {"unset", "placeholder"}
       => /\ calls' = calls /\ waiting' = waiting
          /\ presp'.op = "prompt"
               => /\ presp'.prompt.given
                  /\ presp'.status = 200 /\ ~presp'.failed
                  /\ presp'.body =
                       IF presp'.prompt.estimate THEN "estimate"
                       ELSE IF presp'.prompt.suggest THEN "advice"
                       ELSE "apology"
          /\ presp'.op = "none" => lost')]_vars

\* C11 witness: under the placeholder credential a prompt with both phrases
\* was answered 200 with the estimate, and the provider was never called.
C11_Witness ==
  /\ cred = "placeholder" /\ calls = 0
  /\ presp.op = "prompt" /\ presp.status = 200 /\ presp.body = "estimate"
  /\ presp.prompt.estimate /\ presp.prompt.suggest

\* C13 as stated: /api/health reports hasApiKey = FALSE exactly for the
\* unset and the placeholder credential, and /api/prompts calls the provider
\* exactly for the other credentials.
C13_HealthMatchesForwarding ==
  [][( /\ presp'.op = "health"
           => presp'.hasApiKey = (cred \notin {"unset", "placeholder"})
       /\ calls' # calls => cred \notin {"unset", "placeholder"}
       /\ (presp'.op = "prompt" /\ calls' = calls /\ waiting' = waiting)
           => cred \in {"unset", "placeholder"} )]_vars

\* C13 amended: the same with the empty credential counted as no credential.
C13_HealthMatchesForwardingAmended ==
  [][( /\ presp'.op = "health"
           => presp'.hasApiKey = (cred \notin {"unset", "empty", "placeholder"})
       /\ calls' # calls => cred \notin {"unset", "empty", "placeholder"}
       /\ (presp'.op = "prompt" /\ calls' = calls /\ waiting' = waiting)
           => cred \in {"unset", "empty", "placeholder"} )]_vars

\* C13 witness: under a key the provider has been called and /api/health
\* reports hasApiKey = TRUE.
C13_Witness ==
  /\ cred = "key" /\ calls > 0
  /\ presp.op = "health" /\ presp.hasApiKey

\* C13 witness of the empty credential: /api/health reports FALSE.
C13_WitnessEmpty ==
  /\ cred = "empty" /\ calls = 0
  /\ presp.op = "health" /\ ~presp.hasApiKey

\* C12: the changes of a successful Update response is the number of orders
\* rows its id matched in the step that ran its UPDATE statement (1 or 0),
\* whatever happened to orders and order_items between that step and the
\* response.
C12_ChangesOfOwnUpdate ==
  [][\A s \in Slots :
       /\ (reqs[s].op = "none" /\ reqs'[s].op = "update")
            => reqs'[s].changes =
                 IF reqs'[s].id \in DOMAIN orders THEN 1 ELSE 0
       /\ (reqs[s].op = "update" /\ reqs'[s].op = "update")
            => reqs'[s].changes = reqs[s].changes
       /\ (reqs[s].op = "update" /\ reqs'[s].op = "none"
             /\ resp'.status = 200)
            => /\ resp'.op = "update" /\ resp'.id = reqs[s].id
               /\ resp'.changes = reqs[s].changes]_vars

\* C12 witness: an Update that changed one row answers changes = 1 with
\* items supplied, after a concurrent Delete has removed the order.
C12_Witness ==
  /\ resp.op = "update" /\ resp.status = 200 /\ resp.changes = 1
  /\ resp.id \notin DOMAIN orders
  /\ resp.body.items # <<>>

\* C14: when two Updates of the same existing order that were in flight
\* together have answered success one right after the other and no request
\* is left in flight, the items of the order are the items one of the two
\* supplied.
C14_NoMergedItems ==
  [][( /\ resp.op = "update" /\ resp.status = 200 /\ resp.changes = 1
       /\ resp'.op = "update" /\ resp'.status = 200 /\ resp'.changes = 1
       /\ resp'.id = resp.id
       /\ \E s \in Slots : reqs[s].op = "update" /\ reqs[s].id = resp.id
       /\ \A s \in Slots : reqs'[s].op = "none" )
      => \/ SameItems(order_items'[resp.id], resp.body.items)
         \/ SameItems(order_items'[resp.id], resp'.body.items)]_vars

\* C15: no handler ends without a response and no request ends the process.
C15_AnsweredAndAlive == ~crashed /\ ~lost

\* C16: the step that runs the order INSERT of a Create inserts a row of the
\* request's body under an id no earlier Create got, and that id is the
\* request's id; every item a Create inserts is appended to the rows of the
\* request's own id and to no other; a successful Create response returns
\* the request's id.
C16_CreateOwnId ==
  [][\A s \in Slots :
       /\ (reqs[s].op = "none" /\ reqs'[s].op = "create")
            => /\ reqs'[s].id > seqOrders /\ reqs'[s].id = seqOrders'
               /\ reqs'[s].id \notin DOMAIN orders
               /\ \A t \in Slots \ {s} :
                    reqs'[t].op = "create" => reqs'[t].id # reqs'[s].id
               /\ DOMAIN orders' = DOMAIN orders \cup {reqs'[s].id}
               /\ orders'[reqs'[s].id].customerName
                    = reqs'[s].body.customerName
       /\ (reqs[s].op = "create" /\ reqs'[s].op = "create"
             /\ reqs'[s].k # reqs[s].k)
            => /\ reqs'[s].id = reqs[s].id
               /\ order_items' = [order_items EXCEPT ![reqs[s].id] =
                    Append(@, reqs[s].body.items[reqs[s].k])]
       /\ (reqs[s].op = "create" /\ reqs'[s].op = "none"
             /\ resp'.status = 200)
            => /\ resp'.op = "create"
               /\ resp'.data[1].id = reqs[s].id]_vars

\* C16 witness: two Creates are in flight together, and each has inserted
\* its own item under its own id.
C16_Witness ==
  /\ reqs[1].op = "create" /\ reqs[2].op = "create"
  /\ reqs[1].id # reqs[2].id
  /\ reqs[1].body.items # reqs[2].body.items
  /\ reqs[1].pc = "finalize" /\ reqs[2].pc = "finalize"
  /\ order_items[reqs[1].id] = reqs[1].body.items
  /\ order_items[reqs[2].id] = reqs[2].body.items
  /\ order_items[reqs[1].id] # <<>> /\ order_items[reqs[2].id] # <<>>

\* the request of slot s takes a step of an Update: it begins, or it is an
\* Update that moves on, fails or ends
UpdateStep(s) ==
  \/ reqs[s].op = "none" /\ reqs'[s].op = "update"
  \/ /\ reqs[s].op = "update"
     /\ \/ reqs'[s].op = "none"
        \/ reqs'[s].pc # reqs[s].pc
        \/ reqs'[s].k # reqs[s].k
        \/ reqs'[s].failed # reqs[s].failed

\* what a step of an Update of order id leaves as it was
UpdateFrame(id) ==
  /\ DOMAIN orders' = DOMAIN orders
  /\ seqOrders' = seqOrders
  /\ \A i \in DOMAIN orders :
       /\ orders'[i].timestamp = orders[i].timestamp
       /\ i # id => orders'[i] = orders[i]
  /\ \A j \in OrderIds \ {id} : order_items'[j] = order_items[j]

\* C17: every step of an Update of order id, and the step of an Update that
\* is answered at once, leaves the set of orders rows, their ids and
\* timestamps, every other orders row and the items of every other order as
\* they were.
C17_UpdateFrame ==
  [][( /\ \A s \in Slots :
            UpdateStep(s)
              => UpdateFrame(IF reqs[s].op = "update" THEN reqs[s].id
                             ELSE reqs'[s].id)
       /\ resp'.op = "update" => UpdateFrame(resp'.id) )]_vars

\* C17 witness: an Update has rewritten the row of an order and replaced its
\* items, next to an order of another second that has an item.
C17_Witness ==
  /\ resp.op = "update" /\ resp.status = 200 /\ resp.changes = 1
  /\ resp.id \in DOMAIN orders
  /\ orders[resp.id].customerName = "Bob"
  /\ order_items[resp.id] # <<>>
  /\ \E i \in DOMAIN orders :
       /\ i # resp.id /\ orders[i].customerName = "Alice"
       /\ orders[i].timestamp # orders[resp.id].timestamp
       /\ order_items[i] # <<>>

\* C18: a Delete queues its DELETE FROM orders only in a step in which its
\* DELETE FROM order_items has left no item of the id; a step removes an
\* orders row only for a Delete that waits for that statement, and answers
\* 200; a Delete whose item deletion storage rejects is answered an error at
\* once, with orders and order_items as they were and nothing queued.
C18_ItemsBeforeOrder ==
  [][( /\ \A s \in Slots :
            (reqs[s].op = "none" /\ reqs'[s].op = "delete")
              => /\ reqs'[s].pc = "delete_order"
                 /\ order_items'[reqs'[s].id] = <<>>
                 /\ resp'.op = "none"
                 /\ orders' = orders
       /\ DOMAIN orders' # DOMAIN orders /\ seqOrders' = seqOrders
            => \E s \in Slots :
                 /\ reqs[s].op = "delete" /\ reqs[s].pc = "delete_order"
                 /\ reqs'[s].op = "none"
                 /\ DOMAIN orders' = DOMAIN orders \ {reqs[s].id}
                 /\ resp'.op = "delete" /\ resp'.status = 200
       /\ ( /\ resp'.op = "delete"
            /\ \A s \in Slots : ~(reqs[s].op = "delete" /\ reqs'[s].op = "none") )
            => /\ resp'.failed /\ resp'.status = 400
               /\ orders' = orders /\ order_items' = order_items
               /\ \A s \in Slots : reqs'[s].op = reqs[s].op )]_vars

\* C18 witness: the item deletion of a Delete of an order with items was
\* rejected; the order and its items are there and the answer is 400.
C18_Witness ==
  /\ resp.op = "delete" /\ resp.failed /\ resp.status = 400
  /\ resp.id \in DOMAIN orders /\ order_items[resp.id] # <<>>
  /\ \A s \in Slots : reqs[s].op = "none"

====
